---------------------------- MODULE Spec2Model ----------------------------
(***************************************************************************)
(* A model of ScheduleMaker/ScheduleMaker.py: make_schedule reads the      *)
(* learning-objectives file, strips comments, splits the text into        *)
(* ClassSessions, walks the calendar of the term to date and number them   *)
(* (splicing in NoClassSessions), renders every session, assembles the     *)
(* table and writes the file.                                              *)
(*                                                                         *)
(* Text is a sequence of characters.  The characters that decide what the  *)
(* code does are kept apart, each standing for the text in its comment;    *)
(* "x" is any other character.                                             *)
(*   "BANG"    !!!                 (COMMENT_INDICATOR)                     *)
(*   "BEGIN"   !!! BEGIN COMMENT   (the begin line as the file writes it)  *)
(*   "CBEGIN"  ^!!! BEGIN COMMENT  (the characters of                      *)
(*                                  COMMENT_BEGIN_INDICATOR, caret and all)*)
(*   "END"     !!! END COMMENT                                             *)
(*   "SESSION" a text matched by  Session[ ]*[0-9]*:                       *)
(*   "NL"      the newline                                                 *)
(* Dates are day ordinals: day 1 is Monday 2017-08-28 (TermInfo's          *)
(* start_date), so isoweekday and the month and day of a date are          *)
(* computed as datetime computes them.                                     *)
(***************************************************************************)
EXTENDS Integers, Sequences, FiniteSets, TLC

VARIABLES
    pc,                     \* where make_schedule is
    error,                  \* the exception that ended the run, or "None"
    term_info,              \* TermInfo (never assigned after construction)
    file_exists,            \* is there a learning_objectives_filename to open
    file_text,              \* its contents
    raw_data,               \* ScheduleMaker.raw_data
    lines,                  \* strip_comments: lines
    line_index,             \* strip_comments: position of the for loop
    i_am_inside_a_comment,  \* strip_comments: the flag
    lines_to_keep,          \* strip_comments: lines_to_keep
    data,                   \* split_into_sessions: data
    topics_by_session,      \* ScheduleMaker.topics_by_session
    sessions,               \* ScheduleMaker.sessions
    date,                   \* add_dates_...: date
    session_number,         \* add_dates_...: session_number
    session_index,          \* add_dates_...: session_index
    render_index,           \* make_schedule: position of the loop over sessions
    html,                   \* ScheduleMaker.html
    output_file,            \* contents of schedule_table_filename
    file_written,           \* has write_html opened and written the file
    topics_for_session,     \* make_html_from_topics: its argument
    final_html              \* make_html_from_topics: what it returns

vars == <<pc, error, term_info, file_exists, file_text, raw_data, lines,
          line_index, i_am_inside_a_comment, lines_to_keep, data,
          topics_by_session, sessions, date, session_number, session_index,
          render_index, html, output_file, file_written,
          topics_for_session, final_html>>

-----------------------------------------------------------------------------
(* Bounds of the model. *)

\* longest text given to strip_comments alone
MaxLen == 5
\* most session blocks in a learning-objectives file
MaxSessions == 3
\* latest first day of the term (day ordinal)
MaxStart == 3
\* latest last day of the term (day ordinal)
MaxDate == 9
\* longest topics text given to make_html_from_topics
MaxTopics == 5

-----------------------------------------------------------------------------
(* Python values. *)

\* None, where the other values are numbers (a date, a session number)
NoneInt == 0 - 1

\* None, where the other values are texts
None == <<"None">>

\* a sequence of n copies of s, concatenated
RECURSIVE Repeat(_, _)
Repeat(s, n) == IF n = 0 THEN <<>> ELSE s \o Repeat(s, n - 1)

\* every sequence over S of length at most n
SeqsUpTo(S, n) == UNION {[1..k -> S] : k \in 0..n}

Max(S) == CHOOSE m \in S : \A n \in S : n <= m

-----------------------------------------------------------------------------
(* Text: str.split('\n'), '\n'.join, and the three tests of strip_comments. *)
(* Each definition that models the code may be preceded by a variant of it  *)
(* with a slip in it; the properties below are checked to tell the two      *)
(* apart.                                                                   *)

\* text.split('\n'): the pieces between newlines; always at least one piece
RECURSIVE SplitLines(_)
SplitLines(text) ==
    IF \A i \in 1..Len(text) : text[i] # "NL"
    THEN <<text>>
    ELSE LET n == CHOOSE i \in 1..Len(text) :
                      /\ text[i] = "NL"
                      /\ \A j \in 1..(i - 1) : text[j] # "NL"
         IN  <<SubSeq(text, 1, n - 1)>>
                 \o SplitLines(SubSeq(text, n + 1, Len(text)))

\* '\n'.join(ls)
RECURSIVE Join(_)
Join(ls) ==
    IF Len(ls) = 0 THEN <<>>
    ELSE IF Len(ls) = 1 THEN ls[1]
    ELSE ls[1] \o <<"NL">> \o Join(Tail(ls))

\* COMMENT_INDICATOR in line: every marker text holds "!!!"
ContainsCommentIndicator(line) ==
    \E i \in 1..Len(line) : line[i] \in {"BANG", "BEGIN", "CBEGIN", "END"}

\* COMMENT_BEGIN_INDICATOR in line: a substring test for the characters
\* ^!!! BEGIN COMMENT, the caret among them
ContainsBeginIndicator(line) ==
    \E i \in 1..Len(line) : line[i] = "CBEGIN"

\* re.match(COMMEND_END_INDICATOR, line): the line begins with !!! END COMMENT
MatchesEndIndicator(line) ==
    Len(line) > 0 /\ line[1] = "END"

\* StripOneLine with a slip: any line with !!! ends a block
LeavesOnAnyIndicator(flag, keep, line) ==
    IF flag
    THEN [flag |-> ~ContainsCommentIndicator(line), keep |-> keep]
    ELSE IF ContainsBeginIndicator(line)
         THEN [flag |-> TRUE, keep |-> keep]
         ELSE IF ~ContainsCommentIndicator(line)
              THEN [flag |-> FALSE, keep |-> Append(keep, line)]
              ELSE [flag |-> FALSE, keep |-> keep]

\* StripOneLine with a slip: the line that opens a block is kept
KeepsBeginLine(flag, keep, line) ==
    IF flag
    THEN [flag |-> ~MatchesEndIndicator(line), keep |-> keep]
    ELSE IF ContainsBeginIndicator(line)
         THEN [flag |-> TRUE, keep |-> Append(keep, line)]
         ELSE IF ~ContainsCommentIndicator(line)
              THEN [flag |-> FALSE, keep |-> Append(keep, line)]
              ELSE [flag |-> FALSE, keep |-> keep]

\* the body of the for loop of strip_comments, on one line
StripOneLine(flag, keep, line) ==
    IF flag
    THEN [flag |-> ~MatchesEndIndicator(line), keep |-> keep]
    ELSE IF ContainsBeginIndicator(line)
         THEN [flag |-> TRUE, keep |-> keep]
         ELSE IF ~ContainsCommentIndicator(line)
              THEN [flag |-> FALSE, keep |-> Append(keep, line)]
              ELSE [flag |-> FALSE, keep |-> keep]

\* the for loop of strip_comments from line k on: the flag and the lines
\* kept when it ends
RECURSIVE StripFrom(_, _, _, _)
StripFrom(ls, k, flag, keep) ==
    IF k > Len(ls) THEN [flag |-> flag, keep |-> keep]
    ELSE LET r == StripOneLine(flag, keep, ls[k])
         IN  StripFrom(ls, k + 1, r.flag, r.keep)

\* strip_comments as a function of raw_data
StripComments(text) == Join(StripFrom(SplitLines(text), 1, FALSE, <<>>).keep)


-----------------------------------------------------------------------------
(* split_into_sessions *)

\* the last character of the line that ends a match of SESSION_INDICATOR,
\* ^.*Session[ ]*[0-9]*: ; 0 when the line has no match.  The .* is greedy,
\* so the match ends at the last marker of the line.
MatchEnd(line) ==
    LET at == {i \in 1..Len(line) : line[i] = "SESSION"}
    IN  IF at = {} THEN 0 ELSE Max(at)

\* re.split(SESSION_INDICATOR, data, flags=RE_MULTILINE), line by line:
\* cur is the fragment being collected, ls the lines still to read.  A line
\* with a match closes the fragment (the newline before the line is in it)
\* and the rest of the line opens the next one.
RECURSIVE ReSplitFrom(_, _, _)
ReSplitFrom(ls, k, cur) ==
    IF k > Len(ls) THEN <<cur>>
    ELSE LET line == ls[k]
             upto == IF k = 1 THEN cur ELSE cur \o <<"NL">>
             m    == MatchEnd(line)
         IN  IF m = 0
             THEN ReSplitFrom(ls, k + 1, upto \o line)
             ELSE <<upto>> \o ReSplitFrom(ls, k + 1, SubSeq(line, m + 1, Len(line)))

ReSplit(text) == ReSplitFrom(SplitLines(text), 1, <<>>)

\* self.topics_by_session[1:] of line 176: the fragments after the first
Fragments(text) == Tail(ReSplit(text))

\* Session.__init__ by way of ClassSession.__init__: title and topics are
\* given, find_session_type returns None, and message is set to None whatever
\* is passed.  oid is the identity of the object: the k of the loop that
\* made it.
ClassSession(k, title, topics) ==
    [kind |-> "ClassSession", oid |-> k, datetime_date |-> NoneInt,
     title |-> title, session_number |-> NoneInt, topics |-> topics,
     session_type |-> "None", message |-> None]

\* the body of the loop of lines 187-197 on fragment k
SessionOfFragment(k, fragment) ==
    LET ls == SplitLines(fragment)
    IN  ClassSession(k, ls[1], Join(Tail(ls)))

\* NoClassSession with a slip: the date is not passed on
NoClassSessionWithoutDate(schedule_date) ==
    [kind |-> "NoClassSession", oid |-> 0, datetime_date |-> NoneInt,
     title |-> schedule_date.message, session_number |-> NoneInt,
     topics |-> None, session_type |-> "NO_CLASS", message |-> None]

\* NoClassSession.__init__: the date and, as the title, the message of the
\* ScheduleDate; no session number; message is None
NoClassSession(schedule_date) ==
    [kind |-> "NoClassSession", oid |-> 0,
     datetime_date |-> schedule_date.datetime_date,
     title |-> schedule_date.message, session_number |-> NoneInt,
     topics |-> None, session_type |-> "NO_CLASS", message |-> None]

-----------------------------------------------------------------------------
(* dates *)

\* datetime.date.isoweekday: Monday is 1, Sunday is 7; day 1 is a Monday
isoweekday(d) == ((d - 1) % 7) + 1

\* the week of a date, weeks running Monday to Sunday
WeekOf(d) == (d - 1) \div 7

\* ScheduleDate(year, month, day, message)
ScheduleDate(d, message) == [datetime_date |-> d, message |-> message]

\* date in dates, for a list of ScheduleDate: ScheduleDate.__eq__ compares
\* the datetime_date alone with a datetime.date
DateIn(d, dates) == \E i \in 1..Len(dates) : dates[i].datetime_date = d

\* dates.index(date): the first entry equal to the date
IndexOf(d, dates) ==
    CHOOSE i \in 1..Len(dates) :
        /\ dates[i].datetime_date = d
        /\ \A j \in 1..(i - 1) : dates[j].datetime_date # d

\* x in days_of_week
InList(x, list) == \E i \in 1..Len(list) : list[i] = x

\* list.insert(index, x) with 0 <= index <= len(list); index counts from 0
Insert(list, index, x) ==
    SubSeq(list, 1, index) \o <<x>> \o SubSeq(list, index + 1, Len(list))

\* Session.date_as_string: strftime('%B') + ' ' + str(day), the year dropped
date_as_string(d) ==
    IF d <= 4 THEN <<"August", 27 + d>> ELSE <<"September", d - 4>>


-----------------------------------------------------------------------------
(* rendering *)

\* SHOW_TOPICS of line 46
SHOW_TOPICS == FALSE

\* markdown.markdown(title.replace('/', '<br>\n')): the library's rendering
\* of the title, kept as a wrapper around the text it is given
Markdown(text) == [markdown |-> text]

\* topics.strip() is not empty: some character is not white space
NotBlank(text) == \E i \in 1..Len(text) : text[i] # "NL"

\* what ClassSession.make_html raises, "None" when it returns.
\* LINK_TO_PREP.format(None) is a TypeError; with SHOW_TOPICS set,
\* make_topics_html reads the name gfm, which nothing defines.
ClassSessionError(s) ==
    IF s.session_number = NoneInt THEN "TypeError"
    ELSE IF SHOW_TOPICS /\ NotBlank(s.topics) THEN "NameError"
    ELSE "None"

\* ClassSession.make_html and add_exam_info: SESSION_TEMPLATE filled in,
\* then the message of an EVENING_EXAM session added at the end
ClassSessionHtml(s) ==
    [template |-> "SESSION_TEMPLATE",
     SessionPreparationLink |-> s.session_number,
     SessionNumber |-> s.session_number,
     SessionDate |-> date_as_string(s.datetime_date),
     SessionTitle |-> Markdown(s.title),
     appended |-> IF s.session_type = "EVENING_EXAM"
                  THEN <<s.message>> ELSE <<>>]

\* NoClassSession.make_html: NO_CLASS_TEMPLATE filled in
NoClassSessionHtml(s) ==
    [template |-> "NO_CLASS_TEMPLATE",
     SessionTitle |-> s.title,
     SessionDate |-> date_as_string(s.datetime_date),
     appended |-> <<>>]

\* session.make_html() by the class of the session
SessionHtml(s) ==
    IF s.kind = "ClassSession" THEN ClassSessionHtml(s)
    ELSE NoClassSessionHtml(s)

\* the pieces make_html_table puts around the sessions
ROW_START == [tag |-> "ROW_START"]
ROW_END == [tag |-> "ROW_END"]
Item(h) == [tag |-> "ITEM", html |-> h]

\* the loop of make_html_table from session k on (k counts from 0)
RECURSIVE SessionsHtmlFrom(_, _, _)
SessionsHtmlFrom(ss, k, days_in_week) ==
    IF k >= Len(ss) THEN <<>>
    ELSE (IF k % days_in_week = 0 THEN <<ROW_START>> ELSE <<>>)
         \o <<Item(ss[k + 1].html)>>
         \o (IF k % days_in_week = days_in_week - 1 THEN <<ROW_END>> ELSE <<>>)
         \o SessionsHtmlFrom(ss, k + 1, days_in_week)

\* ScheduleHeader(weekdays_of_week).html + sessions_html
\*     + ScheduleTrailer().html
TableHtml(ss, ti) ==
    [header  |-> [template |-> "HEADER_TEMPLATE", THs |-> ti.weekdays_of_week],
     body    |-> SessionsHtmlFrom(ss, 0, Len(ti.days_of_week)),
     trailer |-> <<"FINAL_EXAM", "TRAILER">>]

NoTable == [header |-> [template |-> "None"], body |-> <<>>, trailer |-> <<>>]


-----------------------------------------------------------------------------
(* the calendar walk *)

\* DatedSession with a slip: the session number is not stored
DatedWithoutNumber(s, d, n, evening_exams) ==
    IF DateIn(d, evening_exams)
    THEN [s EXCEPT !.datetime_date = d,
                   !.session_type = "EVENING_EXAM",
                   !.message = evening_exams[IndexOf(d, evening_exams)].message]
    ELSE [s EXCEPT !.datetime_date = d]

\* DatedSession with a slip: the type is set outside the test for an exam
AlwaysTagged(s, d, n, evening_exams) ==
    [s EXCEPT !.datetime_date = d, !.session_number = n,
              !.session_type = "EVENING_EXAM",
              !.message = IF DateIn(d, evening_exams)
                          THEN evening_exams[IndexOf(d, evening_exams)].message
                          ELSE None]

\* DatedSession with a slip: the number is taken after the increment
NumberedAfterIncrement(s, d, n, evening_exams) ==
    IF DateIn(d, evening_exams)
    THEN [s EXCEPT !.datetime_date = d, !.session_number = n + 1,
                   !.session_type = "EVENING_EXAM",
                   !.message = evening_exams[IndexOf(d, evening_exams)].message]
    ELSE [s EXCEPT !.datetime_date = d, !.session_number = n + 1]

\* lines 243-252: the session is given the date and the session number and,
\* on the date of an evening exam, the type EVENING_EXAM and the message of
\* the first entry with that date
DatedSession(s, d, n, evening_exams) ==
    IF DateIn(d, evening_exams)
    THEN [s EXCEPT !.datetime_date = d, !.session_number = n,
                   !.session_type = "EVENING_EXAM",
                   !.message = evening_exams[IndexOf(d, evening_exams)].message]
    ELSE [s EXCEPT !.datetime_date = d, !.session_number = n]

\* WithNoClassSession with a slip: the NoClassSession is inserted one place
\* too far on, after the first session that has no date yet
InsertsAfterPending(ss, index, d, dates_to_skip) ==
    Insert(ss, IF index < Len(ss) THEN index + 1 ELSE index,
           NoClassSession(dates_to_skip[IndexOf(d, dates_to_skip)]))

\* WithNoClassSession with a slip: the NoClassSession is assigned to the
\* position, not inserted
ReplacesPending(ss, index, d, dates_to_skip) ==
    IF index < Len(ss)
    THEN [ss EXCEPT ![index + 1] =
             NoClassSession(dates_to_skip[IndexOf(d, dates_to_skip)])]
    ELSE Append(ss, NoClassSession(dates_to_skip[IndexOf(d, dates_to_skip)]))

\* lines 235-239: the NoClassSession of the first entry of dates_to_skip with
\* the date, inserted at session_index
WithNoClassSession(ss, index, d, dates_to_skip) ==
    Insert(ss, index, NoClassSession(dates_to_skip[IndexOf(d, dates_to_skip)]))

-----------------------------------------------------------------------------
(* the inputs *)

DayName(i) ==
    <<"Monday", "Tuesday", "Wednesday", "Thursday", "Friday", "Saturday",
      "Sunday">>[i]

\* TermInfo.__init__, with the values it writes down as parameters;
\* weekdays_of_week names the days of days_of_week, as lines 77-78 do
TermInfo(start, end, days, skips, exams, first, n) ==
    [start_date |-> start, end_date |-> end, days_of_week |-> days,
     weekdays_of_week |-> [j \in 1..Len(days) |-> DayName(days[j])],
     dates_to_skip |-> skips, evening_exams |-> exams,
     start_session_number |-> first, number_of_sessions |-> n]

\* one session of the learning-objectives file: the marker, a title, and
\* one line of topics
Block == <<"SESSION", "x", "NL", "x", "NL">>

\* meeting days: Monday, Wednesday, Thursday (line 77), or Tuesday, Thursday
DaysChoices == {<<1, 3, 4>>, <<2, 4>>}

\* dates_to_skip: none; a meeting day; two days; one date twice with two
\* messages; a Saturday
SkipChoices ==
    {<<>>,
     <<ScheduleDate(4, <<"No class">>)>>,
     <<ScheduleDate(1, <<"No class">>), ScheduleDate(4, <<"Fall break">>)>>,
     <<ScheduleDate(8, <<"Fall break">>), ScheduleDate(8, <<"No class">>)>>,
     <<ScheduleDate(6, <<"No class">>)>>}

\* evening_exams: none; a meeting day; one date twice with two messages and
\* another date; a Sunday
ExamChoices ==
    {<<>>,
     <<ScheduleDate(4, <<"exam1">>)>>,
     <<ScheduleDate(8, <<"exam2">>), ScheduleDate(8, <<"exam1">>),
       ScheduleDate(3, <<"exam1">>)>>,
     <<ScheduleDate(7, <<"exam1">>)>>}

\* start_session_number: 1 (line 88) or another number
StartNumbers == {1, 5}

\* terms for a file of k sessions
Terms(k) ==
    {TermInfo(start, end, days, skips, exams, first, k) :
        start \in 1..MaxStart, end \in 0..MaxDate, days \in DaysChoices,
        skips \in SkipChoices, exams \in ExamChoices, first \in StartNumbers}

\* what may come before the sessions of a file: nothing; a line; a comment
\* line; a session inside a comment block as the code reads one; a session
\* between the marker lines as the file writes them
Prefixes ==
    {<<>>,
     <<"x", "NL">>,
     <<"BANG", "x", "NL">>,
     <<"CBEGIN", "NL">> \o Block \o <<"END", "NL">>,
     <<"BEGIN", "NL">> \o Block \o <<"END", "NL">>}

\* what may come after them: nothing; a comment block that is never ended,
\* empty or with a session in it
Suffixes ==
    {<<>>,
     <<"CBEGIN", "NL", "x">>,
     <<"CBEGIN", "NL">> \o Block}

Documents ==
    {pre \o Repeat(Block, k) \o suf :
        pre \in Prefixes, k \in 0..MaxSessions, suf \in Suffixes}

\* the terms the documents are read under: Monday to Thursday or to the
\* Monday after, the first Monday skipped
DocumentTerms ==
    {TermInfo(1, end, <<1, 3, 4>>, <<ScheduleDate(1, <<"No class">>)>>,
              <<ScheduleDate(4, <<"exam1">>)>>, 1, n) :
        end \in {4, 8}, n \in 0..MaxSessions}

\* the characters of a text given to strip_comments alone
StripChars == {"x", "BANG", "BEGIN", "CBEGIN", "END", "NL"}

\* ScheduleMaker.__init__ and the locals before they are assigned
Unassigned ==
    /\ error = "None"
    /\ lines = <<>>
    /\ line_index = 0
    /\ i_am_inside_a_comment = FALSE
    /\ lines_to_keep = <<>>
    /\ data = None
    /\ topics_by_session = <<>>
    /\ sessions = <<>>
    /\ date = NoneInt
    /\ session_number = NoneInt
    /\ session_index = 0
    /\ render_index = 0
    /\ html = NoTable
    /\ output_file = NoTable
    /\ file_written = FALSE
    /\ final_html = None

\* main(): make_schedule is about to run.  Either a file of k sessions under
\* any term for k sessions, or any document (the file may be missing) under
\* the document terms.
Init ==
    /\ Unassigned
    /\ pc = "get_raw_data"
    /\ raw_data = None
    /\ topics_for_session = None
    /\ \/ /\ file_exists = TRUE
          /\ \E k \in 0..MaxSessions :
                /\ file_text = Repeat(Block, k)
                /\ term_info \in Terms(k)
       \/ /\ file_exists \in BOOLEAN
          /\ file_text \in Documents
          /\ term_info \in DocumentTerms

\* strip_comments is about to run on any text
InitStrip ==
    /\ Unassigned
    /\ pc = "strip_comments"
    /\ file_exists = TRUE
    /\ file_text \in SeqsUpTo(StripChars, MaxLen)
    /\ raw_data = file_text
    /\ topics_for_session = None
    /\ term_info = TermInfo(1, 0, <<1, 3, 4>>, <<>>, <<>>, 1, 0)


-----------------------------------------------------------------------------
(* make_schedule, step by step *)

\* the variables of strip_comments
strip_vars == <<lines, line_index, i_am_inside_a_comment, lines_to_keep>>
\* the variables of add_dates_numbers_and_NoClassSessions
walk_vars == <<date, session_number, session_index>>
\* the variables of the files
file_vars == <<file_exists, file_text, output_file, file_written>>
\* the variables of make_html_from_topics
topics_vars == <<topics_for_session, final_html>>

\* an exception leaves make_schedule: nothing after it runs
Raise(e) == pc' = "error" /\ error' = e

\* get_raw_data: open() fails when there is no file
GetRawData ==
    /\ pc = "get_raw_data"
    /\ IF file_exists
       THEN raw_data' = file_text /\ pc' = "strip_comments" /\ error' = error
       ELSE raw_data' = raw_data /\ Raise("FileNotFoundError")
    /\ UNCHANGED <<term_info, strip_vars, data, topics_by_session, sessions,
                   walk_vars, render_index, html, file_vars, topics_vars>>

\* strip_comments, lines 201-206
StripBegin ==
    /\ pc = "strip_comments"
    /\ lines' = SplitLines(raw_data)
    /\ line_index' = 1
    /\ i_am_inside_a_comment' = FALSE
    /\ lines_to_keep' = <<>>
    /\ pc' = "strip_loop"
    /\ UNCHANGED <<error, term_info, raw_data, data, topics_by_session,
                   sessions, walk_vars, render_index, html, file_vars,
                   topics_vars>>

\* strip_comments, lines 207-215, on the next line
StripLine ==
    /\ pc = "strip_loop"
    /\ line_index <= Len(lines)
    /\ LET r == StripOneLine(i_am_inside_a_comment, lines_to_keep,
                             lines[line_index])
       IN  /\ i_am_inside_a_comment' = r.flag
           /\ lines_to_keep' = r.keep
    /\ line_index' = line_index + 1
    /\ UNCHANGED <<pc, error, term_info, raw_data, lines, data,
                   topics_by_session, sessions, walk_vars, render_index, html,
                   file_vars, topics_vars>>

\* strip_comments, line 217
StripReturn ==
    /\ pc = "strip_loop"
    /\ line_index > Len(lines)
    /\ data' = Join(lines_to_keep)
    /\ pc' = "split"
    /\ UNCHANGED <<error, term_info, raw_data, strip_vars, topics_by_session,
                   sessions, walk_vars, render_index, html, file_vars,
                   topics_vars>>

\* CountsAgree with a slip: fewer fragments than sessions pass
CountsAtMost(fragments, ti) == Len(fragments) <= ti.number_of_sessions

\* is the assert of line 180 passed
CountsAgree(fragments, ti) == Len(fragments) = ti.number_of_sessions

\* split_into_sessions, lines 174-197
SplitIntoSessions ==
    /\ pc = "split"
    /\ LET fragments == Fragments(data)
           made == [k \in 1..Len(fragments) |->
                       SessionOfFragment(k, fragments[k])]
       IN  IF CountsAgree(fragments, term_info)
           THEN /\ sessions' = made
                /\ topics_by_session' =
                       [k \in 1..Len(made) |-> made[k].topics]
                /\ pc' = "walk_begin"
                /\ error' = error
           ELSE /\ topics_by_session' = fragments
                /\ sessions' = sessions
                /\ Raise("AssertionError")
    /\ UNCHANGED <<term_info, raw_data, strip_vars, data, walk_vars,
                   render_index, html, file_vars, topics_vars>>

\* add_dates_numbers_and_NoClassSessions, lines 220-223
WalkBegin ==
    /\ pc = "walk_begin"
    /\ date' = term_info.start_date
    /\ session_number' = term_info.start_session_number
    /\ session_index' = 0
    /\ pc' = "walk"
    /\ UNCHANGED <<error, term_info, raw_data, strip_vars, data,
                   topics_by_session, sessions, render_index, html, file_vars,
                   topics_vars>>

\* lines 228-229: the date is past end_date; make_schedule goes on to its
\* loop over the sessions
WalkBreak ==
    /\ pc = "walk"
    /\ date > term_info.end_date
    /\ pc' = "render"
    /\ render_index' = 0
    /\ UNCHANGED <<error, term_info, raw_data, strip_vars, data,
                   topics_by_session, sessions, walk_vars, html, file_vars,
                   topics_vars>>

\* lines 232 and 255: not a day of class
WalkOffDay ==
    /\ pc = "walk"
    /\ date <= term_info.end_date
    /\ ~InList(isoweekday(date), term_info.days_of_week)
    /\ date' = date + 1
    /\ UNCHANGED <<pc, error, term_info, raw_data, strip_vars, data,
                   topics_by_session, sessions, session_number, session_index,
                   render_index, html, file_vars, topics_vars>>

\* lines 233-239, 254, 255: a day of class that is a date to skip
WalkNoClass ==
    /\ pc = "walk"
    /\ date <= term_info.end_date
    /\ InList(isoweekday(date), term_info.days_of_week)
    /\ DateIn(date, term_info.dates_to_skip)
    /\ sessions' = WithNoClassSession(sessions, session_index, date,
                                      term_info.dates_to_skip)
    /\ session_index' = session_index + 1
    /\ date' = date + 1
    /\ UNCHANGED <<pc, error, term_info, raw_data, strip_vars, data,
                   topics_by_session, session_number, render_index, html,
                   file_vars, topics_vars>>

\* lines 240-255: a day of class; the session at session_index is dated
WalkClass ==
    /\ pc = "walk"
    /\ date <= term_info.end_date
    /\ InList(isoweekday(date), term_info.days_of_week)
    /\ ~DateIn(date, term_info.dates_to_skip)
    /\ session_index < Len(sessions)
    /\ sessions' = [sessions EXCEPT ![session_index + 1] =
                       DatedSession(@, date, session_number,
                                    term_info.evening_exams)]
    /\ session_number' = session_number + 1
    /\ session_index' = session_index + 1
    /\ date' = date + 1
    /\ UNCHANGED <<pc, error, term_info, raw_data, strip_vars, data,
                   topics_by_session, render_index, html, file_vars,
                   topics_vars>>

\* line 242: a day of class and no session left at session_index
WalkIndexError ==
    /\ pc = "walk"
    /\ date <= term_info.end_date
    /\ InList(isoweekday(date), term_info.days_of_week)
    /\ ~DateIn(date, term_info.dates_to_skip)
    /\ session_index >= Len(sessions)
    /\ Raise("IndexError")
    /\ UNCHANGED <<term_info, raw_data, strip_vars, data, topics_by_session,
                   sessions, walk_vars, render_index, html, file_vars,
                   topics_vars>>

\* make_schedule, lines 150-151: session.make_html() on the next session
MakeHtml ==
    /\ pc = "render"
    /\ render_index < Len(sessions)
    /\ LET s == sessions[render_index + 1]
           e == IF s.kind = "ClassSession" THEN ClassSessionError(s)
                ELSE "None"
       IN  IF e = "None"
           THEN /\ sessions' = [sessions EXCEPT ![render_index + 1] =
                                   [x \in DOMAIN s \cup {"html"} |->
                                       IF x = "html" THEN SessionHtml(s)
                                       ELSE s[x]]]
                /\ render_index' = render_index + 1
                /\ UNCHANGED <<pc, error>>
           ELSE /\ Raise(e)
                /\ UNCHANGED <<sessions, render_index>>
    /\ UNCHANGED <<term_info, raw_data, strip_vars, data, topics_by_session,
                   walk_vars, html, file_vars, topics_vars>>

\* make_html_table, after the loop over the sessions; k % 0 cannot be
\* computed when there is a session and no day of class
MakeHtmlTable ==
    /\ pc = "render"
    /\ render_index >= Len(sessions)
    /\ IF Len(term_info.days_of_week) = 0 /\ Len(sessions) > 0
       THEN Raise("ZeroDivisionError") /\ html' = html
       ELSE /\ html' = TableHtml(sessions, term_info)
            /\ pc' = "write"
            /\ error' = error
    /\ UNCHANGED <<term_info, raw_data, strip_vars, data, topics_by_session,
                   sessions, walk_vars, render_index, file_vars, topics_vars>>

\* write_html
WriteHtml ==
    /\ pc = "write"
    /\ output_file' = html
    /\ file_written' = TRUE
    /\ pc' = "done"
    /\ UNCHANGED <<error, term_info, raw_data, strip_vars, data,
                   topics_by_session, sessions, walk_vars, render_index, html,
                   file_exists, file_text, topics_vars>>

Next ==
    \/ GetRawData
    \/ StripBegin
    \/ StripLine
    \/ StripReturn
    \/ SplitIntoSessions
    \/ WalkBegin
    \/ WalkBreak
    \/ WalkOffDay
    \/ WalkNoClass
    \/ WalkClass
    \/ WalkIndexError
    \/ MakeHtml
    \/ MakeHtmlTable
    \/ WriteHtml

\* make_schedule on a learning-objectives file and a term
Spec == Init /\ [][Next]_vars

NextStrip == StripBegin \/ StripLine \/ StripReturn

\* strip_comments on a text
SpecStrip == InitStrip /\ [][NextStrip]_vars


-----------------------------------------------------------------------------
(* Properties of the calendar walk *)

\* add_dates_numbers_and_NoClassSessions has returned
WalkCompleted ==
    \/ pc \in {"render", "write", "done"}
    \/ pc = "error" /\ error \in {"TypeError", "NameError", "ZeroDivisionError"}

\* the dates of the term that fall on a day of class
MeetingDates ==
    {d \in term_info.start_date..term_info.end_date :
        InList(isoweekday(d), term_info.days_of_week)}

\* the positions of the session list
Positions == 1..Len(sessions)

\* the positions of the ClassSessions that have a date
DatedClassPositions ==
    {i \in Positions : /\ sessions[i].kind = "ClassSession"
                       /\ sessions[i].datetime_date # NoneInt}

\* C1: once add_dates_numbers_and_NoClassSessions has returned, every date
\* of the term on a day of class is the datetime_date of exactly one element
\* of the session list, and no element has any other date.
C1_OneSessionPerMeetingDate ==
    WalkCompleted =>
        /\ \A d \in MeetingDates :
              Cardinality({i \in Positions : sessions[i].datetime_date = d}) = 1
        /\ \A i \in Positions :
              sessions[i].datetime_date # NoneInt
                  => sessions[i].datetime_date \in MeetingDates

\* a walk has returned over at least three meeting dates, one of them skipped
C1_Witness ==
    /\ pc = "done"
    /\ Cardinality(MeetingDates) >= 3
    /\ \E i \in Positions : sessions[i].kind = "NoClassSession"
    /\ \E i \in Positions : sessions[i].kind = "ClassSession"

\* C2: during and after the walk the dated ClassSessions, read in list order,
\* carry start_session_number, start_session_number + 1, ... with no gap and
\* no repeat, and a NoClassSession carries no number and uses none up.
C2_SessionNumbersConsecutive ==
    (pc = "walk" \/ WalkCompleted) =>
        /\ \A i \in DatedClassPositions :
              sessions[i].session_number =
                  term_info.start_session_number
                      + Cardinality({j \in DatedClassPositions : j < i})
        /\ \A i \in Positions :
              sessions[i].kind = "NoClassSession"
                  => sessions[i].session_number = NoneInt
        /\ pc = "walk" =>
              session_number = term_info.start_session_number
                                   + Cardinality(DatedClassPositions)

\* a walk has returned with a NoClassSession between two numbered sessions,
\* the numbers starting at 5
C2_Witness ==
    /\ pc = "done"
    /\ term_info.start_session_number = 5
    /\ \E i, j, k \in Positions :
          /\ i < j /\ j < k
          /\ sessions[i].session_number = 5
          /\ sessions[j].kind = "NoClassSession"
          /\ sessions[k].session_number = 6

\* make_schedule is past the assert of split_into_sessions
PastSplit ==
    pc \notin {"get_raw_data", "strip_comments", "strip_loop", "split"}
        /\ error # "FileNotFoundError"

\* C3: when the fragments of the stripped text (the first one dropped) are
\* not number_of_sessions many, make_schedule ends with the AssertionError
\* with no session made or dated, none rendered and the file not written;
\* when they are that many, there is no AssertionError.
C3_CountMismatchAborts ==
    PastSplit =>
        IF Len(Fragments(data)) # term_info.number_of_sessions
        THEN /\ pc = "error" /\ error = "AssertionError"
             /\ sessions = <<>>
             /\ date = NoneInt /\ session_number = NoneInt
             /\ html = NoTable
             /\ ~file_written /\ output_file = NoTable
        ELSE error # "AssertionError"

\* the run has ended on a file with sessions, but not number_of_sessions
C3_Witness ==
    /\ pc = "error" /\ error = "AssertionError"
    /\ Len(Fragments(data)) > 0
    /\ Len(Fragments(data)) # term_info.number_of_sessions

\* the walk is at a day of class that is a date to skip
AtSkipDate ==
    /\ pc = "walk"
    /\ date <= term_info.end_date
    /\ InList(isoweekday(date), term_info.days_of_week)
    /\ DateIn(date, term_info.dates_to_skip)

\* the walk is at a day of class that is no date to skip, a session pending
AtClassDate ==
    /\ pc = "walk"
    /\ date <= term_info.end_date
    /\ InList(isoweekday(date), term_info.days_of_week)
    /\ ~DateIn(date, term_info.dates_to_skip)
    /\ session_index < Len(sessions)

\* the pending sessions: those at or after session_index
Pending == {i \in Positions : i > session_index}

\* C4: at a skip date on a day of class the walk inserts, at session_index, a
\* NoClassSession with the date and the message of the skip entry: the list
\* is one longer, the sessions before are as they were, every pending session
\* is still pending, a ClassSession with no date and no number, the session
\* counter is as it was; and the next date of class that is not skipped goes
\* to the session that was first among the pending.
C4_SkipInsertsNoClassSession ==
    [][/\ AtSkipDate =>
            /\ Len(sessions') = Len(sessions) + 1
            /\ session_index' = session_index + 1
            /\ session_number' = session_number
            /\ LET new == sessions'[session_index + 1]
               IN  /\ new.kind = "NoClassSession"
                   /\ new.datetime_date = date
                   /\ \E e \in 1..Len(term_info.dates_to_skip) :
                         /\ term_info.dates_to_skip[e].datetime_date = date
                         /\ term_info.dates_to_skip[e].message = new.title
            /\ \A i \in 1..session_index : sessions'[i] = sessions[i]
            /\ \A i \in Pending :
                  /\ sessions'[i + 1] = sessions[i]
                  /\ sessions[i].kind = "ClassSession"
                  /\ sessions[i].datetime_date = NoneInt
                  /\ sessions[i].session_number = NoneInt
       /\ AtClassDate =>
            /\ sessions'[session_index + 1].oid = sessions[session_index + 1].oid
            /\ sessions'[session_index + 1].datetime_date = date
       /\ (pc = "walk" /\ ~AtSkipDate /\ ~AtClassDate) =>
            /\ sessions' = sessions
            /\ session_index' = session_index
    ]_vars

\* a NoClassSession has just been inserted before a pending ClassSession,
\* after a session that was dated
C4_Witness ==
    /\ pc = "walk"
    /\ session_index >= 2
    /\ session_index < Len(sessions)
    /\ sessions[session_index].kind = "NoClassSession"
    /\ sessions[session_index].datetime_date = date - 1
    /\ sessions[session_index - 1].kind = "ClassSession"
    /\ sessions[session_index + 1].kind = "ClassSession"


-----------------------------------------------------------------------------
(* Properties of strip_comments *)

\* a begin-comment marker line: !!! BEGIN COMMENT at the start of the line
IsBeginMarkerLine(line) == Len(line) > 0 /\ line[1] = "BEGIN"

\* an end-comment marker line: !!! END COMMENT at the start of the line
IsEndMarkerLine(line) == Len(line) > 0 /\ line[1] = "END"

\* is line i after a begin marker line with no end marker line in between
RECURSIVE AfterBeginMarker(_, _)
AfterBeginMarker(ls, i) ==
    IF i = 1 THEN FALSE
    ELSE IF AfterBeginMarker(ls, i - 1)
         THEN ~IsEndMarkerLine(ls[i - 1])
         ELSE IsBeginMarkerLine(ls[i - 1])

\* line i is a begin marker line that has an end marker line after it, a
\* line between the two, or that end marker line
InMarkedBlock(ls, i) ==
    /\ AfterBeginMarker(ls, i) \/ IsBeginMarkerLine(ls[i])
    /\ \E e \in i..Len(ls) : IsEndMarkerLine(ls[e])

\* C5: strip_comments keeps no line from a begin-comment marker line
\* (!!! BEGIN COMMENT at the start of a line) up to and including the next
\* end-comment marker line, whether or not the line holds !!!.
C5_MarkedBlockDropped ==
    (/\ pc = "strip_loop"
     /\ line_index <= Len(lines)
     /\ InMarkedBlock(lines, line_index))
        => StripOneLine(i_am_inside_a_comment, lines_to_keep,
                        lines[line_index]).keep = lines_to_keep

\* C6: strip_comments of what strip_comments returned is what it returned.
C6_StripIdempotent ==
    pc = "split" => StripComments(data) = data

\* strip_comments has returned some text, having dropped a comment block
C6_Witness ==
    /\ pc = "split"
    /\ \E i \in 1..Len(raw_data) : raw_data[i] = "CBEGIN"
    /\ \E i \in 1..Len(raw_data) : raw_data[i] = "END"
    /\ ~i_am_inside_a_comment
    /\ Len(data) > 0
    /\ data # raw_data

-----------------------------------------------------------------------------
(* Properties of make_schedule as a whole *)

\* a date of dates_to_skip or evening_exams that is no meeting date of the term
StrayEntry ==
    \/ \E i \in 1..Len(term_info.dates_to_skip) :
          term_info.dates_to_skip[i].datetime_date \notin MeetingDates
    \/ \E i \in 1..Len(term_info.evening_exams) :
          term_info.evening_exams[i].datetime_date \notin MeetingDates

\* the file has a comment block that is never ended
UnterminatedBlock == StripFrom(SplitLines(file_text), 1, FALSE, <<>>).flag

\* the file has no session marker
NoSessionMarker == \A i \in 1..Len(file_text) : file_text[i] # "SESSION"

\* C7: an unterminated comment block, a file with no session marker, or a
\* dates_to_skip or evening_exams entry that is no meeting date of the term
\* never ends make_schedule with an error other than the count mismatch
\* (AssertionError) and the missing file.
C7_MalformedInputNeverCrashes ==
    (UnterminatedBlock \/ NoSessionMarker \/ StrayEntry)
        => error \in {"None", "AssertionError", "FileNotFoundError"}

\* the pieces of the table that are cells, in order
ItemPlaces(body) == {p \in 1..Len(body) : body[p].tag = "ITEM"}

\* the row of the table the piece at p is in: the rows opened before it
RowOf(body, p) ==
    Cardinality({q \in 1..p : body[q].tag = "ROW_START"})

\* the column of the cell at p, counted from 1: the cells since its row opened
ColumnOf(body, p) ==
    LET opened == {q \in 1..p : body[q].tag = "ROW_START"}
        from   == IF opened = {} THEN 0 ELSE Max(opened)
    IN  Cardinality({q \in ItemPlaces(body) : from < q /\ q <= p})

\* the place in the body of the cell of session k (the k-th cell)
PlaceOf(body, k) ==
    CHOOSE p \in ItemPlaces(body) :
        Cardinality({q \in ItemPlaces(body) : q <= p}) = k

\* C8: in the table that is written, the sessions of one row have dates in
\* one week, sessions of different weeks are in different rows, and the
\* session in column j is on the day days_of_week[j].
C8_OneRowPerWeek ==
    pc \in {"write", "done"} =>
        /\ Cardinality(ItemPlaces(html.body)) = Len(sessions)
        /\ \A i, j \in Positions :
              (RowOf(html.body, PlaceOf(html.body, i))
                   = RowOf(html.body, PlaceOf(html.body, j)))
              <=> (WeekOf(sessions[i].datetime_date)
                       = WeekOf(sessions[j].datetime_date))
        /\ \A i \in Positions :
              LET c == ColumnOf(html.body, PlaceOf(html.body, i))
              IN  /\ c <= Len(term_info.days_of_week)
                  /\ isoweekday(sessions[i].datetime_date)
                         = term_info.days_of_week[c]

\* C10: a ClassSession has the type EVENING_EXAM and a message exactly when
\* it was given the date of an evening_exams entry, the message being that of
\* the (first) entry with the date; a skipped date gives a NoClassSession
\* with no exam tag and no message even if it is an exam date; and the html
\* of a session ends with its message if it is tagged EVENING_EXAM and has
\* nothing appended otherwise.
C10_EveningExamTagging ==
    (pc = "walk" \/ WalkCompleted) =>
        \A i \in Positions :
            LET s == sessions[i]
                exams == term_info.evening_exams
            IN  /\ s.kind = "ClassSession" =>
                      IF s.datetime_date # NoneInt
                             /\ DateIn(s.datetime_date, exams)
                      THEN /\ s.session_type = "EVENING_EXAM"
                           /\ s.message # None
                           /\ s.message =
                                  exams[IndexOf(s.datetime_date, exams)].message
                      ELSE /\ s.session_type = "None"
                           /\ s.message = None
                /\ s.kind = "NoClassSession" =>
                      /\ s.session_type = "NO_CLASS"
                      /\ s.message = None
                /\ "html" \in DOMAIN s =>
                      s.html.appended =
                          IF s.kind = "ClassSession" /\ s.datetime_date # NoneInt
                                 /\ DateIn(s.datetime_date, exams)
                          THEN <<exams[IndexOf(s.datetime_date, exams)].message>>
                          ELSE <<>>

\* the file is written with a session tagged on the second of two entries'
\* dates, an untagged session, and a NoClassSession on an exam date
C10_Witness ==
    /\ pc = "done"
    /\ \E i \in Positions :
          /\ sessions[i].session_type = "EVENING_EXAM"
          /\ sessions[i].html.appended = <<sessions[i].message>>
    /\ \E i \in Positions :
          /\ sessions[i].kind = "ClassSession"
          /\ sessions[i].session_type = "None"
    /\ \E i \in Positions :
          /\ sessions[i].kind = "NoClassSession"
          /\ DateIn(sessions[i].datetime_date, term_info.evening_exams)


-----------------------------------------------------------------------------
(* make_html_from_topics *)

\* the characters of a topics text: the parentheses, the full stop, and any
\* other character
TopicChars == {"(", ")", ".", "x"}

\* text.replace(old, new): every occurrence, from the left, not overlapping
RECURSIVE Replace(_, _, _)
Replace(text, old, new) ==
    IF Len(text) < Len(old) THEN text
    ELSE IF SubSeq(text, 1, Len(old)) = old
         THEN new \o Replace(SubSeq(text, Len(old) + 1, Len(text)), old, new)
         ELSE <<text[1]>> \o Replace(Tail(text), old, new)

\* old in text
HasSub(text, old) ==
    \E i \in 1..(Len(text) - Len(old) + 1) :
        SubSeq(text, i, i + Len(old) - 1) = old

\* a string.Template by the names it holds after a $
\* ExamTopic.EVENING_EXAM_TEMPLATE, lines 628-665
ExamTopicTemplate ==
    [name |-> "ExamTopic.EVENING_EXAM_TEMPLATE",
     placeholders |-> {"RegularClassDay", "ExamDay"}]

\* Template.substitute(**kws) raises KeyError when a name of the template
\* is not among the keywords
SubstituteRaises(template, keywords) == ~(template.placeholders \subseteq keywords)

\* lines 295-302 and 318-322: the topics as one list item, turned to HTML by
\* markdown.markdown, the classes written into the first <ul> and every <li>
\* (a text of TopicChars has no Test or Sprint in it)
TopicsAsList(topics) ==
    <<"<ul class=topics collapsibleList>", "NL", "<li class=topic>">>
        \o Replace(topics, <<"NL">>, <<"NL", " ", " ", " ", " ">>)
        \o <<"</li>", "NL", "</ul>">>

\* lines 329-337: the seven replacements
Parenthetical(h0) ==
    LET h1 == Replace(h0, <<"(", "(">>, <<"DOUBLE_OPEN_PARENTHESES">>)
        h2 == Replace(h1, <<")", ")">>, <<"DOUBLE_CLOSE_PARENTHESES">>)
        h3 == Replace(h2, <<"(">>, <<"<span class=parenthetical>", "(">>)
        h4 == Replace(h3, <<")">>, <<")", "</span>">>)
        h5 == Replace(h4, <<"</span>", ".">>, <<".", "</span>">>)
        h6 == Replace(h5, <<"DOUBLE_OPEN_PARENTHESES">>, <<"(">>)
    IN  Replace(h6, <<"DOUBLE_CLOSE_PARENTHESES">>, <<")">>)

IsTag(c) ==
    c \in {"<ul class=topics collapsibleList>", "<li class=topic>", "</li>",
           "</ul>", "<span class=parenthetical>", "</span>"}

\* lines 339-345: BeautifulSoup(html).prettify() writes every tag on a line
\* of its own (the indentation is left out)
RECURSIVE Prettify(_)
Prettify(h) ==
    IF Len(h) = 0 THEN <<>>
    ELSE IF IsTag(h[1]) THEN <<h[1], "NL">> \o Prettify(Tail(h))
    ELSE IF Len(h) > 1 /\ IsTag(h[2]) THEN <<h[1], "NL">> \o Prettify(Tail(h))
    ELSE <<h[1]>> \o Prettify(Tail(h))

\* make_html_from_topics: line 325 calls substitute() with no keyword on a
\* template that holds $RegularClassDay and $ExamDay
MakeHtmlFromTopics ==
    /\ pc = "make_html_from_topics"
    /\ IF SubstituteRaises(ExamTopicTemplate, {})
       THEN Raise("KeyError") /\ final_html' = final_html
       ELSE /\ final_html' =
                   Prettify(Parenthetical(TopicsAsList(topics_for_session)))
            /\ pc' = "returned"
            /\ error' = error
    /\ UNCHANGED <<term_info, raw_data, strip_vars, data, topics_by_session,
                   sessions, walk_vars, render_index, html, file_vars,
                   topics_for_session>>

\* make_html_from_topics is about to run on any topics text
InitTopics ==
    /\ Unassigned
    /\ pc = "make_html_from_topics"
    /\ file_exists = TRUE
    /\ file_text = <<>>
    /\ raw_data = None
    /\ topics_for_session \in SeqsUpTo(TopicChars, MaxTopics)
    /\ term_info = TermInfo(1, 0, <<1, 3, 4>>, <<>>, <<>>, 1, 0)

NextTopics == MakeHtmlFromTopics

\* make_html_from_topics on a topics text
SpecTopics == InitTopics /\ [][NextTopics]_vars

\* C9: for a topics text that holds ((x)) or (x), make_html_from_topics
\* returns; what it returns holds (x) with no span around it where the text
\* had ((x)), and <span class=parenthetical>(x)</span> where the text had a
\* single (x).
C9_ParentheticalRewriting ==
    LET double == <<"(", "(", "x", ")", ")">>
        single == <<"(", "x", ")">>
        span   == <<"<span class=parenthetical>", "(", "x", ")", "</span>">>
    IN  (/\ pc # "make_html_from_topics"
         /\ HasSub(topics_for_session, single))
            => /\ pc = "returned"
               /\ error = "None"
               /\ HasSub(topics_for_session, double)
                      => /\ HasSub(final_html, single)
                         /\ ~HasSub(final_html, span)
               /\ ~HasSub(topics_for_session, double)
                      => HasSub(final_html, span)


-----------------------------------------------------------------------------
(* The walk over a term that is too short *)

\* the meeting dates of the term that are no date to skip
ClassDates ==
    {d \in MeetingDates : ~DateIn(d, term_info.dates_to_skip)}

\* the positions of the ClassSessions, dated or not
ClassPositions == {i \in Positions : sessions[i].kind = "ClassSession"}

\* the term has fewer class dates than the file has sessions
TermTooShort == Cardinality(ClassDates) < Cardinality(ClassPositions)

\* the days of the term, start_date to end_date
DaysOfTerm ==
    IF term_info.end_date < term_info.start_date THEN 0
    ELSE term_info.end_date - term_info.start_date + 1

\* what C11 says of every state of a walk over a term that is too short
WalkOverShortTerm ==
    ((pc = "walk" \/ WalkCompleted) /\ TermTooShort) =>
        /\ error # "IndexError"
        /\ date - term_info.start_date <= DaysOfTerm
        /\ pc = "walk" =>
              /\ ~ENABLED WalkIndexError
              /\ ENABLED (WalkBreak \/ WalkOffDay \/ WalkNoClass \/ WalkClass)
        /\ WalkCompleted =>
              LET left == Cardinality(ClassPositions) - Cardinality(ClassDates)
              IN  /\ date - term_info.start_date = DaysOfTerm
                  /\ date > term_info.end_date
                  /\ \A i \in Positions :
                        IF i > Len(sessions) - left
                        THEN /\ sessions[i].kind = "ClassSession"
                             /\ sessions[i].datetime_date = NoneInt
                             /\ sessions[i].session_number = NoneInt
                        ELSE /\ sessions[i].datetime_date # NoneInt
                             /\ sessions[i].kind = "ClassSession" =>
                                   sessions[i].session_number =
                                       term_info.start_session_number
                                         + Cardinality({j \in ClassPositions : j < i})

\* a step of such a walk moves the date by one day, or ends the walk with
\* the date past end_date and no error
ShortTermStep ==
    (pc = "walk" /\ TermTooShort) =>
        \/ pc' = "walk" /\ date' = date + 1
        \/ /\ pc' = "render" /\ error' = "None"
           /\ date > term_info.end_date /\ date' = date

\* C11: when the term has fewer class dates than the file has sessions, the
\* walk always has a step to take that is no error, every step moves the
\* date one day on, and the walk ends once the date is past end_date, after
\* one step for each day of the term; the ClassSessions at the end of the
\* list, as many as there are too many, have no date and no number, and the
\* sessions before them are dated and numbered in order.
C11_ShortTermLeavesTrailingUndated ==
    /\ []WalkOverShortTerm
    /\ [][ShortTermStep]_vars

\* the walk has returned over a term with a class date and a skipped date
\* and two sessions too many
C11_Witness ==
    /\ pc = "render"
    /\ render_index = 0
    /\ Cardinality(ClassPositions) = Cardinality(ClassDates) + 2
    /\ Cardinality(ClassDates) >= 1
    /\ \E i \in Positions : sessions[i].kind = "NoClassSession"
    /\ sessions[Len(sessions)].datetime_date = NoneInt

-----------------------------------------------------------------------------
(* Properties of an unterminated comment block *)

\* the flag and the lines kept when the loop of strip_comments reaches line b
BeforeLine(ls, b) == StripFrom(SubSeq(ls, 1, b - 1), 1, FALSE, <<>>)

\* strip_comments enters a comment block at line b: it is outside a block
\* there and the test of line 212 holds of the line
EntersBlockAt(ls, b) ==
    /\ ~BeforeLine(ls, b).flag
    /\ ContainsBeginIndicator(ls[b])

\* no line after line b is an end-comment marker line
NoEndMarkerAfter(ls, b) ==
    \A e \in (b + 1)..Len(ls) : ~IsEndMarkerLine(ls[e])

\* C12: when strip_comments has entered a comment block at a line that no
\* end-comment marker line follows, then from there to the end of the input
\* the flag is true and no line is added to the lines kept before the
\* block, and the function returns, without an error, those lines joined.
C12_UnterminatedBlockConsumesRest ==
    pc \in {"strip_loop", "split"} =>
        \A b \in 1..Len(lines) :
            (/\ b < line_index
             /\ EntersBlockAt(lines, b)
             /\ NoEndMarkerAfter(lines, b))
                => /\ i_am_inside_a_comment
                   /\ lines_to_keep = BeforeLine(lines, b).keep
                   /\ error = "None"
                   /\ pc = "split" => data = Join(BeforeLine(lines, b).keep)

\* strip_comments has returned a line kept before a block that has no end
\* marker line, having dropped a line of the block that holds no !!!
C12_Witness ==
    /\ pc = "split"
    /\ i_am_inside_a_comment
    /\ \E b \in 2..Len(lines) :
          /\ EntersBlockAt(lines, b)
          /\ NoEndMarkerAfter(lines, b)
          /\ \E i \in (b + 1)..Len(lines) :
                Len(lines[i]) > 0 /\ ~ContainsCommentIndicator(lines[i])
    /\ Len(data) > 0

-----------------------------------------------------------------------------
(* Properties of the order of the session list *)

\* the ClassSession at position i is the k-th session of the file
RankInList(i) == Cardinality({j \in ClassPositions : j <= i})

\* the class date d is the k-th class date of the term
RankInTerm(d) == Cardinality({e \in ClassDates : e <= d})

\* C13: at every step of the walk, and after it, the ClassSessions stand in
\* the list in the order of the file, each with the title and the topics it
\* was parsed with; every element up to session_index has a date and these
\* dates increase strictly along the list; every element after session_index
\* is a ClassSession with no date; and the k-th session of the file, once
\* dated, has the k-th date of class that is not a date to skip.
C13_WalkKeepsDocumentOrder ==
    (pc = "walk" \/ WalkCompleted) =>
        /\ \A i \in ClassPositions :
              /\ sessions[i].oid = RankInList(i)
              /\ sessions[i].topics = topics_by_session[sessions[i].oid]
        /\ session_index <= Len(sessions)
        /\ \A i \in 1..session_index : sessions[i].datetime_date # NoneInt
        /\ \A i, j \in 1..session_index :
              i < j => sessions[i].datetime_date < sessions[j].datetime_date
        /\ \A i \in Pending :
              /\ sessions[i].kind = "ClassSession"
              /\ sessions[i].datetime_date = NoneInt
        /\ \A i \in DatedClassPositions :
              /\ sessions[i].datetime_date \in ClassDates
              /\ RankInTerm(sessions[i].datetime_date) = sessions[i].oid

\* the walk is under way: two sessions are dated, a NoClassSession stands
\* between them, and a session is still to be dated
C13_Witness ==
    /\ pc = "walk"
    /\ session_index = 3
    /\ Len(sessions) > 3
    /\ sessions[1].kind = "ClassSession"
    /\ sessions[2].kind = "NoClassSession"
    /\ sessions[3].kind = "ClassSession"

-----------------------------------------------------------------------------
(* Properties of the rows of the table *)

\* the places of the body that hold the piece with the tag
PlacesOf(body, tag) == {p \in 1..Len(body) : body[p].tag = tag}

\* C14: in the table that make_html_table builds, every ROW_START is followed
\* by len(days_of_week) cells and then a ROW_END, and there are as many
\* ROW_STARTs as ROW_ENDs, whatever the number of sessions.
C14_RowTagsBalanced ==
    pc \in {"write", "done"} =>
        LET body == html.body
            N    == Len(term_info.days_of_week)
        IN  /\ Cardinality(PlacesOf(body, "ROW_START"))
                   = Cardinality(PlacesOf(body, "ROW_END"))
            /\ \A p \in PlacesOf(body, "ROW_START") :
                  /\ p + N + 1 <= Len(body)
                  /\ \A q \in (p + 1)..(p + N) : body[q].tag = "ITEM"
                  /\ body[p + N + 1].tag = "ROW_END"

=============================================================================
